---- MODULE Spec2Model ----
(***************************************************************************)
(* Model of the Temporal benchmark stacks.                                 *)
(*                                                                         *)
(*   - the manifest transformations (scaleDeployment, setLimits,           *)
(*     tolerateDedicated, configureAWSDatasource, configureExternalGrafana,*)
(*     configureRemoteWrite) and the kustomize.Directory pass that applies *)
(*     a list of them to a manifest group;                                 *)
(*   - the deployment program of the benchmark stack: createCluster,       *)
(*     createPersistence and the resources created after them, in program  *)
(*     order.                                                              *)
(*                                                                         *)
(* A structured object is a function from field names to values, so that a *)
(* JavaScript property assignment may add a key, and a read through an     *)
(* absent key is a TypeError.                                              *)
(***************************************************************************)
EXTENDS Integers, Sequences, FiniteSets, TLC

VARIABLES
    config,       \* the stack configuration read by config.requireObject
    pc,           \* position of the deployment program
    err,          \* the error the program was aborted with, "" when none
    resources,    \* names of the resources created so far, in creation order
    persistence,  \* the environment map returned by createPersistence
    configMaps,   \* data of the config maps the program creates
    manifests,    \* manifest group of each kustomize directory
    group,        \* transformation harness: the manifest group
    before,       \* transformation harness: the group before the last pass
    applied,      \* transformation harness: the list applied by the last pass
    passes,       \* transformation harness: number of passes of that list
    original,     \* transformation harness: the group as it was decoded
    failed,       \* transformation harness: a transformation threw
    cliEnv,       \* dashboard upload CLI: the file and the environment variables
    cliPc,        \* dashboard upload CLI: position in main
    cliCalls,     \* dashboard upload CLI: the calls made so far and how they ended
    cliExit       \* dashboard upload CLI: exit status, -1 while running

vars == <<config, pc, err, resources, persistence, configMaps, manifests,
          group, before, applied, passes, original, failed,
          cliEnv, cliPc, cliCalls, cliExit>>

progVars == <<config, pc, err, resources, persistence, configMaps, manifests>>

harnessVars == <<group, before, applied, passes, original, failed>>

cliVars == <<cliEnv, cliPc, cliCalls, cliExit>>

----------------------------------------------------------------------------
(* Bounds *)

MaxGroupLen == 2

MaxReplicas == 2

MaxPods == 3

MaxWorkflows == 4

----------------------------------------------------------------------------
(* JavaScript object helpers *)

\* obj[key] = val: overwrites the key, or adds it when it is absent
SetField(rec, key, val) ==
    [k \in (DOMAIN rec) \cup {key} |-> IF k = key THEN val ELSE rec[k]]

\* an object without keys; also what an absent (undefined) Limits block is
\* to the optional chaining cpu?.request
EmptyObject == [k \in {} |-> ""]

\* cpu?.request used as a condition: the key is there and the string is
\* not empty
Truthy(limits, key) == key \in DOMAIN limits /\ limits[key] # ""

\* outcome of running a transformation on one object: the object as the
\* transformation left it, and whether it threw
Ok(o) == [obj |-> o, err |-> FALSE]

Throw(o) == [obj |-> o, err |-> TRUE]

----------------------------------------------------------------------------
(* Transformation generators *)

\* variant: the name is not compared
scaleDeployment_AnyName(name, replicas, obj) ==
    IF obj.kind = "Deployment"
    THEN Ok([obj EXCEPT !.spec = SetField(@, "replicas", replicas)])
    ELSE Ok(obj)

scaleDeployment(name, replicas, obj) ==
    IF obj.kind = "Deployment" /\ obj.metadata.name = name
    THEN Ok([obj EXCEPT !.spec = SetField(@, "replicas", replicas)])
    ELSE Ok(obj)

\* variant: a write whose target is missing is skipped
WriteLimit_SkipMissing(r, section, field, val) ==
    IF r.err THEN r
    ELSE LET containers == r.obj.spec.template.spec.containers
         IN  IF \/ Len(containers) = 0
                \/ "resources" \notin DOMAIN containers[1]
                \/ section \notin DOMAIN containers[1].resources
             THEN r
             ELSE Ok([r.obj EXCEPT
                        !.spec.template.spec.containers[1].resources[section] =
                            SetField(@, field, val)])

\* container.resources.<section>.<field> = val, where container is
\* obj.spec.template.spec.containers[0]
WriteLimit(r, section, field, val) ==
    IF r.err THEN r
    ELSE LET containers == r.obj.spec.template.spec.containers
         IN  IF \/ Len(containers) = 0
                \/ "resources" \notin DOMAIN containers[1]
                \/ section \notin DOMAIN containers[1].resources
             THEN Throw(r.obj)
             ELSE Ok([r.obj EXCEPT
                        !.spec.template.spec.containers[1].resources[section] =
                            SetField(@, field, val)])

\* variant: the CPU limit is written whenever a CPU request is given
setLimits_LimitFromRequest(name, cpu, memory, obj) ==
    IF obj.kind = "Deployment" /\ obj.metadata.name = name
    THEN LET r0 == Ok(obj)
             r1 == IF Truthy(cpu, "request")
                   THEN WriteLimit(r0, "requests", "cpu", cpu.request) ELSE r0
             r2 == IF Truthy(cpu, "request")
                   THEN WriteLimit(r1, "limits", "cpu", cpu.request) ELSE r1
             r3 == IF Truthy(memory, "request")
                   THEN WriteLimit(r2, "requests", "memory", memory.request) ELSE r2
             r4 == IF Truthy(memory, "limit")
                   THEN WriteLimit(r3, "limits", "memory", memory.limit) ELSE r3
         IN  r4
    ELSE Ok(obj)

setLimits(name, cpu, memory, obj) ==
    IF obj.kind = "Deployment" /\ obj.metadata.name = name
    THEN LET r0 == Ok(obj)
             r1 == IF Truthy(cpu, "request")
                   THEN WriteLimit(r0, "requests", "cpu", cpu.request) ELSE r0
             r2 == IF Truthy(cpu, "limit")
                   THEN WriteLimit(r1, "limits", "cpu", cpu.limit) ELSE r1
             r3 == IF Truthy(memory, "request")
                   THEN WriteLimit(r2, "requests", "memory", memory.request) ELSE r2
             r4 == IF Truthy(memory, "limit")
                   THEN WriteLimit(r3, "limits", "memory", memory.limit) ELSE r3
         IN  r4
    ELSE Ok(obj)

Toleration(value) ==
    [key |-> "dedicated", operator |-> "Equal", value |-> value, effect |-> "NoSchedule"]

\* variant: the toleration is pushed onto the list the Deployment has
tolerateDedicated_Append(value, obj) ==
    IF obj.kind = "Deployment"
    THEN Ok([obj EXCEPT !.spec.template.spec =
                SetField(@, "tolerations",
                         (IF "tolerations" \in DOMAIN @ THEN @.tolerations ELSE <<>>)
                         \o <<Toleration(value)>>)])
    ELSE Ok(obj)

\* variant: only the frontend Deployment is given the toleration
\* variant: the toleration comes with a single replica
tolerateDedicated_SingleReplica(value, obj) ==
    IF obj.kind = "Deployment"
    THEN Ok([obj EXCEPT !.spec = SetField(@, "replicas", 1),
                        !.spec.template.spec = SetField(@, "tolerations", <<Toleration(value)>>)])
    ELSE Ok(obj)

tolerateDedicated_FrontendOnly(value, obj) ==
    IF obj.kind = "Deployment" /\ obj.metadata.name = "temporal-frontend"
    THEN Ok([obj EXCEPT !.spec.template.spec =
                SetField(@, "tolerations", <<Toleration(value)>>)])
    ELSE Ok(obj)

tolerateDedicated(value, obj) ==
    IF obj.kind = "Deployment"
    THEN Ok([obj EXCEPT !.spec.template.spec =
                SetField(@, "tolerations", <<Toleration(value)>>)])
    ELSE Ok(obj)

\* variant: the url is written also when the endpoint is empty
configureAWSDatasource_AlwaysUrl(name, region, endpoint, obj) ==
    IF obj.kind = "GrafanaDatasource" /\ obj.metadata.name = name
    THEN IF "datasource" \notin DOMAIN obj.spec
         THEN Throw(obj)
         ELSE LET o1 == [obj EXCEPT !.spec.datasource = SetField(@, "url", endpoint)]
              IN  Ok([o1 EXCEPT !.spec.datasource =
                        SetField(@, "jsonData",
                                 [sigV4Auth |-> TRUE,
                                  sigV4AuthType |-> "ec2_iam_role",
                                  sigV4Region |-> region])])
    ELSE Ok(obj)

configureAWSDatasource(name, region, endpoint, obj) ==
    IF obj.kind = "GrafanaDatasource" /\ obj.metadata.name = name
    THEN IF "datasource" \notin DOMAIN obj.spec
         THEN Throw(obj)
         ELSE LET o1 == IF endpoint # ""
                        THEN [obj EXCEPT !.spec.datasource = SetField(@, "url", endpoint)]
                        ELSE obj
              IN  Ok([o1 EXCEPT !.spec.datasource =
                        SetField(@, "jsonData",
                                 [sigV4Auth |-> TRUE,
                                  sigV4AuthType |-> "ec2_iam_role",
                                  sigV4Region |-> region])])
    ELSE Ok(obj)

configureExternalGrafana(name, endpoint, obj) ==
    IF obj.kind = "Grafana" /\ obj.metadata.name = name
    THEN IF "external" \notin DOMAIN obj.spec
         THEN Throw(obj)
         ELSE Ok([obj EXCEPT !.spec.external = SetField(@, "url", "https://" \o endpoint)])
    ELSE Ok(obj)

RemoteWriteEntry(region, endpoint) ==
    [url |-> endpoint \o "api/v1/remote_write",
     sigv4 |-> [region |-> region],
     queue_config |-> [max_samples_per_send |-> 1000, max_shards |-> 200, capacity |-> 2500],
     writeRelabelConfigs |->
        << [sourceLabels |-> <<"exported_namespace">>, regex |-> "(.+)", targetLabel |-> "namespace"],
           [regex |-> "exported_namespace", action |-> "labeldrop"] >>]

\* variant: the entry is pushed onto the remoteWrite list the object has
configureRemoteWrite_Append(name, region, endpoint, obj) ==
    IF obj.kind = "Prometheus" /\ obj.metadata.name = name
    THEN Ok([obj EXCEPT !.spec =
                SetField(SetField(SetField(@, "replicas", 1),
                                  "replicaExternalLabelName", ""),
                         "remoteWrite",
                         (IF "remoteWrite" \in DOMAIN @ THEN @.remoteWrite ELSE <<>>)
                         \o <<RemoteWriteEntry(region, endpoint)>>)])
    ELSE Ok(obj)

configureRemoteWrite(name, region, endpoint, obj) ==
    IF obj.kind = "Prometheus" /\ obj.metadata.name = name
    THEN Ok([obj EXCEPT !.spec =
                SetField(SetField(SetField(@, "replicas", 1),
                                  "replicaExternalLabelName", ""),
                         "remoteWrite", <<RemoteWriteEntry(region, endpoint)>>)])
    ELSE Ok(obj)

\* the inline transformation of the dashboards directory
setOperatorImage(obj) ==
    IF obj.kind = "Deployment" /\ obj.metadata.name = "grafana-operator-controller-manager"
    THEN IF Len(obj.spec.template.spec.containers) = 0
         THEN Throw(obj)
         ELSE Ok([obj EXCEPT !.spec.template.spec.containers[1] =
                    SetField(@, "image", "ghcr.io/grafana-operator/grafana-operator:v5.0.0-rc0")])
    ELSE Ok(obj)

----------------------------------------------------------------------------
(* A transformation value: the generator and the parameters it closed over *)

Scale(name, replicas) == [gen |-> "scaleDeployment", name |-> name, replicas |-> replicas]

Limits(name, cpu, memory) == [gen |-> "setLimits", name |-> name, cpu |-> cpu, memory |-> memory]

Tolerate(value) == [gen |-> "tolerateDedicated", value |-> value]

AWSDatasource(name, region, endpoint) ==
    [gen |-> "configureAWSDatasource", name |-> name, region |-> region, endpoint |-> endpoint]

ExternalGrafana(name, endpoint) ==
    [gen |-> "configureExternalGrafana", name |-> name, endpoint |-> endpoint]

RemoteWrite(name, region, endpoint) ==
    [gen |-> "configureRemoteWrite", name |-> name, region |-> region, endpoint |-> endpoint]

OperatorImage == [gen |-> "setOperatorImage"]

\* calling the transformation t on obj
Transform(t, obj) ==
    CASE t.gen = "scaleDeployment" -> scaleDeployment(t.name, t.replicas, obj)
      [] t.gen = "setLimits" -> setLimits(t.name, t.cpu, t.memory, obj)
      [] t.gen = "tolerateDedicated" -> tolerateDedicated(t.value, obj)
      [] t.gen = "configureAWSDatasource" -> configureAWSDatasource(t.name, t.region, t.endpoint, obj)
      [] t.gen = "configureExternalGrafana" -> configureExternalGrafana(t.name, t.endpoint, obj)
      [] t.gen = "configureRemoteWrite" -> configureRemoteWrite(t.name, t.region, t.endpoint, obj)
      [] t.gen = "setOperatorImage" -> setOperatorImage(obj)

\* variant: the list is run from its end to its start
RECURSIVE TransformAll_Reversed(_, _)
TransformAll_Reversed(ts, r) ==
    IF r.err \/ ts = <<>> THEN r
    ELSE TransformAll_Reversed(SubSeq(ts, 1, Len(ts) - 1), Transform(ts[Len(ts)], r.obj))

\* the transformations of a list run on one object, in list order; a throw
\* ends the run and leaves the object as it was at the throw
RECURSIVE TransformAll(_, _)
TransformAll(ts, r) ==
    IF r.err \/ ts = <<>> THEN r
    ELSE TransformAll(Tail(ts), Transform(Head(ts), r.obj))

\* kustomize.Directory: every object of the group, in the group's order,
\* goes through the transformations; a throw ends the pass
RECURSIVE ApplyDirectory(_, _)
ApplyDirectory(ts, objs) ==
    IF objs = <<>> THEN [objs |-> <<>>, err |-> FALSE]
    ELSE LET r == TransformAll(ts, Ok(Head(objs)))
         IN  IF r.err
             THEN [objs |-> <<r.obj>> \o Tail(objs), err |-> TRUE]
             ELSE LET rest == ApplyDirectory(ts, Tail(objs))
                  IN  [objs |-> <<r.obj>> \o rest.objs, err |-> rest.err]

----------------------------------------------------------------------------
(* Manifest objects: the shapes the transformations read and write *)

Resources ==
    [requests |-> [cpu |-> "100m", memory |-> "128Mi"],
     limits |-> [cpu |-> "200m", memory |-> "256Mi"]]

OtherToleration ==
    [key |-> "spot", operator |-> "Exists", value |-> "", effect |-> "NoExecute"]

Deployment(name, replicas, containers) ==
    [kind |-> "Deployment", metadata |-> [name |-> name],
     spec |-> [replicas |-> replicas,
               template |-> [spec |-> [containers |-> containers]]]]

TolerantDeployment(name, replicas, containers) ==
    [kind |-> "Deployment", metadata |-> [name |-> name],
     spec |-> [replicas |-> replicas,
               template |-> [spec |-> [containers |-> containers,
                                       tolerations |-> <<OtherToleration, Toleration("cassandra")>>]]]]

Service(name) ==
    [kind |-> "Service", metadata |-> [name |-> name], spec |-> [type |-> "ClusterIP"]]

ConfigMapObject(name) ==
    [kind |-> "ConfigMap", metadata |-> [name |-> name], data |-> [k |-> "v"]]

Prometheus(name, remoteWrite) ==
    [kind |-> "Prometheus", metadata |-> [name |-> name],
     spec |-> [replicas |-> 2, replicaExternalLabelName |-> "prometheus_replica",
               remoteWrite |-> remoteWrite]]

BarePrometheus(name) ==
    [kind |-> "Prometheus", metadata |-> [name |-> name], spec |-> [replicas |-> 2]]

GrafanaDatasource(name) ==
    [kind |-> "GrafanaDatasource", metadata |-> [name |-> name],
     spec |-> [datasource |-> [url |-> "http://prometheus:9090",
                               jsonData |-> [timeInterval |-> "5s"]]]]

BareGrafanaDatasource(name) ==
    [kind |-> "GrafanaDatasource", metadata |-> [name |-> name],
     spec |-> [instanceSelector |-> "grafana"]]

Grafana(name) ==
    [kind |-> "Grafana", metadata |-> [name |-> name],
     spec |-> [external |-> [url |-> "http://localhost:3000"]]]

BareGrafana(name) ==
    [kind |-> "Grafana", metadata |-> [name |-> name], spec |-> [config |-> "x"]]

\* the objects manifest groups are made of, in a fixed order
ObjectPool ==
    << Deployment("temporal-frontend", 1, << [name |-> "main", image |-> "img:1", resources |-> Resources] >>),
       TolerantDeployment("temporal-frontend", 3, << [name |-> "main", image |-> "img:1", resources |-> Resources] >>),
       Deployment("temporal-frontend", 1,
                  << [name |-> "main", image |-> "img:1",
                      resources |-> [requests |-> [cpu |-> "100m"], limits |-> EmptyObject]] >>),
       Deployment("temporal-frontend", 1,
                  << [name |-> "main", image |-> "img:1",
                      resources |-> [requests |-> [cpu |-> "100m", memory |-> "128Mi"]]] >>),
       Deployment("temporal-frontend", 1, << [name |-> "main", image |-> "img:1"] >>),
       Deployment("temporal-frontend", 1, << >>),
       Deployment("temporal-history", 1, << [name |-> "main", image |-> "img:1", resources |-> Resources] >>),
       TolerantDeployment("benchmark-workers", 1, << [name |-> "main", image |-> "img:1", resources |-> Resources] >>),
       Deployment("grafana-operator-controller-manager", 1,
                  << [name |-> "manager", image |-> "img:1", resources |-> Resources] >>),
       Service("temporal-frontend"),
       ConfigMapObject("k8s"),
       Prometheus("k8s", << [url |-> "http://old-a/"], [url |-> "http://old-b/"] >>),
       BarePrometheus("k8s"),
       Prometheus("other", << [url |-> "http://old-a/"] >>),
       GrafanaDatasource("external-prometheus"),
       GrafanaDatasource("cloudwatch"),
       BareGrafanaDatasource("cloudwatch"),
       Grafana("external-grafana"),
       BareGrafana("external-grafana") >>

\* kind and metadata.name identify an object within a group
SameIdentity(a, b) == a.kind = b.kind /\ a.metadata.name = b.metadata.name

\* the groups of at most n objects: objects of the pool in pool order, no
\* two with the same kind and name
RECURSIVE GroupsFrom(_, _)
GroupsFrom(first, n) ==
    IF n = 0 \/ first > Len(ObjectPool) THEN { <<>> }
    ELSE GroupsFrom(first + 1, n)
         \cup { <<ObjectPool[first]>> \o g :
                  g \in { h \in GroupsFrom(first + 1, n - 1) :
                            \A i \in 1..Len(h) : ~SameIdentity(h[i], ObjectPool[first]) } }

ManifestGroups == GroupsFrom(1, MaxGroupLen)

----------------------------------------------------------------------------
(* Configuration values *)

\* CPULimits / MemoryLimits: request and limit are each absent, empty or set
OptionalLimits(request, limit) ==
    { f \in UNION { [d -> {"", request, limit}] : d \in SUBSET {"request", "limit"} } :
        /\ "request" \in DOMAIN f => f["request"] \in {"", request}
        /\ "limit" \in DOMAIN f => f["limit"] \in {"", limit} }

CPUChoices == OptionalLimits("500m", "1")

MemoryChoices == OptionalLimits("1Gi", "2Gi")

Regions == {"us-west-2", "eu-west-1"}

Endpoints == {"https://prom.example/", "https://aps.example/ws/"}

DynamicConfigChoices ==
    { EmptyObject,
      ("frontend.rps" :> <<[value |-> 100]>>),
      ("frontend.rps" :> <<[value |-> 100]>>)
          @@ ("matching.numTaskqueueReadPartitions" :> <<[value |-> 1]>>) }

\* TemporalConfig values; DynamicConfig may be missing from the record
TemporalConfigsWith(dc) ==
    [DynamicConfig : {dc},
     Frontend : [Pods : 1..MaxPods,
                 CPU : {EmptyObject, [request |-> "500m", limit |-> "1"]},
                 Memory : {[request |-> "1Gi"]}],
     History : [Shards : {512}, Pods : {2}, CPU : {[limit |-> "2"]}, Memory : {EmptyObject}],
     Matching : [TaskQueuePartitions : {4}, Pods : {2},
                 CPU : {[request |-> "", limit |-> "1"]}, Memory : {[limit |-> "2Gi"]}],
     Workers : [Pods : {2}, WorkflowPollers : {16}, ActivityPollers : {8},
                CPU : {[request |-> "500m"]}, Memory : {[request |-> "1Gi", limit |-> "1Gi"]}],
     SoakTest : [ConcurrentWorkflows : 0..MaxWorkflows]]

WithoutDynamicConfig(tc) == [k \in (DOMAIN tc) \ {"DynamicConfig"} |-> tc[k]]

TemporalConfigs ==
    (UNION { TemporalConfigsWith(dc) : dc \in DynamicConfigChoices })
    \cup { WithoutDynamicConfig(tc) : tc \in TemporalConfigsWith(EmptyObject) }

----------------------------------------------------------------------------
(* The transformation lists of the kustomize directories *)

temporalTransformations(temporalConfig) ==
    << Scale("temporal-frontend", temporalConfig.Frontend.Pods),
       Limits("temporal-frontend", temporalConfig.Frontend.CPU, temporalConfig.Frontend.Memory),
       Scale("temporal-history", temporalConfig.History.Pods),
       Limits("temporal-history", temporalConfig.History.CPU, temporalConfig.History.Memory),
       Scale("temporal-matching", temporalConfig.Matching.Pods),
       Limits("temporal-matching", temporalConfig.Matching.CPU, temporalConfig.Matching.Memory),
       Tolerate("temporal") >>

\* variant: the soak test is scaled like the workers
benchmarkTransformations_SoakLikeWorkers(temporalConfig) ==
    << Scale("benchmark-workers", temporalConfig.Workers.Pods),
       Limits("benchmark-workers", temporalConfig.Workers.CPU, temporalConfig.Workers.Memory),
       Scale("benchmark-soak-test", temporalConfig.Workers.Pods) >>

benchmarkTransformations(temporalConfig) ==
    << Scale("benchmark-workers", temporalConfig.Workers.Pods),
       Limits("benchmark-workers", temporalConfig.Workers.CPU, temporalConfig.Workers.Memory),
       Scale("benchmark-soak-test", temporalConfig.Frontend.Pods) >>

monitoringTransformations(region, endpoint) ==
    << RemoteWrite("k8s", region, endpoint) >>

dashboardsTransformations(region, grafanaEndpoint, prometheusEndpoint) ==
    << ExternalGrafana("external-grafana", grafanaEndpoint),
       AWSDatasource("external-prometheus", region, prometheusEndpoint),
       AWSDatasource("cloudwatch", region, ""),
       OperatorImage >>

----------------------------------------------------------------------------
(* Config resolution: createCluster and createPersistence *)

\* { ...a, ...b }: the keys of both, b's value where both have the key
Merge(a, b) ==
    [k \in (DOMAIN a) \cup (DOMAIN b) |-> IF k \in DOMAIN b THEN b[k] ELSE a[k]]

Digit(d) ==
    CASE d = 0 -> "0" [] d = 1 -> "1" [] d = 2 -> "2" [] d = 3 -> "3" [] d = 4 -> "4"
      [] d = 5 -> "5" [] d = 6 -> "6" [] d = 7 -> "7" [] d = 8 -> "8" [] d = 9 -> "9"

\* Number.prototype.toString of a non-negative integer
RECURSIVE NumberToString(_)
NumberToString(n) ==
    IF n < 10 THEN Digit(n) ELSE NumberToString(n \div 10) \o Digit(n % 10)

Engines == {"postgres", "aurora-postgresql", "mysql", "aurora-mysql", "oracle-ee", "PostgreSQL"}

ClusterConfigs == { EmptyObject, [EKS |-> [NodeType |-> "m5.2xlarge", NodeCount |-> 3]] }

RDSConfigs == [Engine : Engines, EngineVersion : {"15.2"}, InstanceType : {"db.r5.large"},
               SingleAZ : BOOLEAN]

CassandraConfigs == { [NodeType |-> "m5.2xlarge", NodeCount |-> 3, ReplicaCount |-> 3] }

VisibilityConfigs ==
    { EmptyObject,
      [OpenSearch |-> [InstanceType |-> "m6g.large.search", EngineVersion |-> "OpenSearch_2.3"]] }

\* PersistenceConfig values: each of RDS, Cassandra and Visibility is there
\* or not
PersistenceConfigs ==
    { Merge(Merge(r, c), v) :
        r \in {EmptyObject} \cup { [RDS |-> x] : x \in RDSConfigs },
        c \in {EmptyObject} \cup { [Cassandra |-> x] : x \in CassandraConfigs },
        v \in {EmptyObject} \cup { [Visibility |-> x] : x \in VisibilityConfigs } }

\* outcome of a function that creates resources: the error it threw ("" when
\* it returned), the resources it created before that, in order, and the
\* environment map it returned
Outcome(e, created, env) == [err |-> e, resources |-> created, env |-> env]

eksCluster(persistenceConfig) ==
    <<"eks.Cluster", "eks.NodeGroup:temporal">>
    \o (IF "Cassandra" \in DOMAIN persistenceConfig
        THEN <<"eks.NodeGroup:cassandra">> ELSE <<>>)

createCluster(clusterConfig, persistenceConfig) ==
    IF "EKS" \in DOMAIN clusterConfig
    THEN Outcome("", eksCluster(persistenceConfig), EmptyObject)
    ELSE Outcome("invalid cluster config", <<>>, EmptyObject)

\* the (dbType, dbPort, dbPrefix, dbExtras) an engine stands for
\* variant: the aurora engines are not recognized
EngineSettings_AuroraUnrecognized(engine) ==
    IF engine = "postgres"
    THEN [ok |-> TRUE, dbType |-> "postgresql", dbPort |-> 5432, dbPrefix |-> "POSTGRES",
          dbExtras |-> EmptyObject]
    ELSE IF engine = "mysql"
    THEN [ok |-> TRUE, dbType |-> "mysql", dbPort |-> 3306, dbPrefix |-> "MYSQL",
          dbExtras |-> [MYSQL_TX_ISOLATION_COMPAT |-> "true"]]
    ELSE [ok |-> FALSE, dbType |-> "", dbPort |-> 0, dbPrefix |-> "", dbExtras |-> EmptyObject]

EngineSettings(engine) ==
    IF engine = "postgres" \/ engine = "aurora-postgresql"
    THEN [ok |-> TRUE, dbType |-> "postgresql", dbPort |-> 5432, dbPrefix |-> "POSTGRES",
          dbExtras |-> EmptyObject]
    ELSE IF engine = "mysql" \/ engine = "aurora-mysql"
    THEN [ok |-> TRUE, dbType |-> "mysql", dbPort |-> 3306, dbPrefix |-> "MYSQL",
          dbExtras |-> [MYSQL_TX_ISOLATION_COMPAT |-> "true"]]
    ELSE [ok |-> FALSE, dbType |-> "", dbPort |-> 0, dbPrefix |-> "", dbExtras |-> EmptyObject]

rdsPersistence(rdsConfig, temporalConfig) ==
    LET db == EngineSettings(rdsConfig.Engine)
        aurora == rdsConfig.Engine = "aurora-postgresql" \/ rdsConfig.Engine = "aurora-mysql"
        database == IF aurora THEN <<"aws.rds.Cluster", "aws.rds.ClusterInstance">>
                    ELSE IF rdsConfig.SingleAZ THEN <<"aws.rds.Instance">>
                    ELSE <<"aws.rds.Cluster">>
        endpoint == IF ~aurora /\ rdsConfig.SingleAZ
                    THEN "rdsInstance.address" ELSE "rdsCluster.endpoint"
    IN  IF ~db.ok
        THEN Outcome("invalid RDS config", <<>>, EmptyObject)
        ELSE Outcome("",
                     <<"aws.ec2.SecurityGroup:rds", "aws.ec2.SecurityGroupRule:rds">> \o database,
                     Merge(("NUM_HISTORY_SHARDS" :> NumberToString(temporalConfig.History.Shards))
                           @@ ("DB" :> db.dbType)
                           @@ ("DB_PORT" :> NumberToString(db.dbPort))
                           @@ ((db.dbPrefix \o "_SEEDS") :> endpoint)
                           @@ ((db.dbPrefix \o "_USER") :> "temporal")
                           @@ ((db.dbPrefix \o "_PWD") :> "temporal")
                           @@ ("DBNAME" :> "temporal_persistence"),
                           db.dbExtras))

\* variant: the database name is left out of the map
cassandraPersistence_NoDbName(cassandraConfig, temporalConfig) ==
    Outcome("",
            <<"k8s.Namespace:cassandra", "aws.eks.Addon:aws-ebs-csi-driver",
              "aws.iam.RolePolicyAttachment:ebs-driver-role-policy", "k8s.helm.Chart:cassandra">>,
            ("NUM_HISTORY_SHARDS" :> NumberToString(temporalConfig.History.Shards))
            @@ ("DB" :> "cassandra")
            @@ ("DB_PORT" :> "9042")
            @@ ("CASSANDRA_SEEDS" :> "cassandra.cassandra.svc.cluster.local")
            @@ ("CASSANDRA_USER" :> "temporal")
            @@ ("CASSANDRA_PASSWORD" :> "temporal")
            @@ ("CASSANDRA_REPLICATION_FACTOR" :> "3"))

cassandraPersistence(cassandraConfig, temporalConfig) ==
    Outcome("",
            <<"k8s.Namespace:cassandra", "aws.eks.Addon:aws-ebs-csi-driver",
              "aws.iam.RolePolicyAttachment:ebs-driver-role-policy", "k8s.helm.Chart:cassandra">>,
            ("NUM_HISTORY_SHARDS" :> NumberToString(temporalConfig.History.Shards))
            @@ ("DB" :> "cassandra")
            @@ ("DB_PORT" :> "9042")
            @@ ("CASSANDRA_SEEDS" :> "cassandra.cassandra.svc.cluster.local")
            @@ ("CASSANDRA_USER" :> "temporal")
            @@ ("CASSANDRA_PASSWORD" :> "temporal")
            @@ ("CASSANDRA_REPLICATION_FACTOR" :> "3")
            @@ ("DBNAME" :> "temporal_persistence"))

opensearchVisibility(openSearchConfig) ==
    Outcome("",
            <<"aws.ec2.SecurityGroup:opensearch", "aws.ec2.SecurityGroupRule:opensearch",
              "aws.opensearch.Domain", "aws.iam.Policy:opensearch-access",
              "aws.iam.RolePolicyAttachment:opensearch-role-policy",
              "k8s.Deployment:opensearch-proxy", "k8s.Service:opensearch-proxy">>,
            ("ENABLE_ES" :> "true")
            @@ ("ES_SCHEMA" :> "http")
            @@ ("ES_SEEDS" :> "opensearch-proxy.default.svc.cluster.local")
            @@ ("ES_PORT" :> "80"))

\* variant: without OpenSearch the map says that visibility is disabled
createAdvancedVisibility_DisabledFlag(persistenceConfig) ==
    IF /\ "Visibility" \in DOMAIN persistenceConfig
       /\ "OpenSearch" \in DOMAIN persistenceConfig.Visibility
    THEN opensearchVisibility(persistenceConfig.Visibility.OpenSearch)
    ELSE Outcome("", <<>>, [ENABLE_ES |-> "false"])

\* config?.OpenSearch != undefined, where config is persistenceConfig.Visibility
createAdvancedVisibility(persistenceConfig) ==
    IF /\ "Visibility" \in DOMAIN persistenceConfig
       /\ "OpenSearch" \in DOMAIN persistenceConfig.Visibility
    THEN opensearchVisibility(persistenceConfig.Visibility.OpenSearch)
    ELSE Outcome("", <<>>, EmptyObject)

\* variant: the Cassandra branch is missing
createPersistence_RDSOnly(persistenceConfig, temporalConfig) ==
    IF "RDS" \notin DOMAIN persistenceConfig
    THEN Outcome("invalid persistence config", <<>>, EmptyObject)
    ELSE LET p == rdsPersistence(persistenceConfig.RDS, temporalConfig)
             v == createAdvancedVisibility(persistenceConfig)
         IN  IF p.err # "" THEN p
             ELSE Outcome("", p.resources \o v.resources, Merge(p.env, v.env))

createPersistence(persistenceConfig, temporalConfig) ==
    IF ~("RDS" \in DOMAIN persistenceConfig \/ "Cassandra" \in DOMAIN persistenceConfig)
    THEN Outcome("invalid persistence config", <<>>, EmptyObject)
    ELSE LET p == IF "RDS" \in DOMAIN persistenceConfig
                  THEN rdsPersistence(persistenceConfig.RDS, temporalConfig)
                  ELSE cassandraPersistence(persistenceConfig.Cassandra, temporalConfig)
             v == createAdvancedVisibility(persistenceConfig)
         IN  IF p.err # "" THEN p
             ELSE Outcome("", p.resources \o v.resources, Merge(p.env, v.env))

----------------------------------------------------------------------------
(* Config maps *)

\* variant: the user's entries are spread after the matching entries
dynamicConfig_UserLast(temporalConfig) ==
    LET dc == IF "DynamicConfig" \in DOMAIN temporalConfig
              THEN temporalConfig.DynamicConfig ELSE EmptyObject
        matchingConfig ==
            ("matching.numTaskqueueReadPartitions" :>
                <<[value |-> temporalConfig.Matching.TaskQueuePartitions]>>)
            @@ ("matching.numTaskqueueWritePartitions" :>
                <<[value |-> temporalConfig.Matching.TaskQueuePartitions]>>)
    IN  Merge(matchingConfig, dc)

dynamicConfig(temporalConfig) ==
    LET dc == IF "DynamicConfig" \in DOMAIN temporalConfig
              THEN temporalConfig.DynamicConfig ELSE EmptyObject
        matchingConfig ==
            ("matching.numTaskqueueReadPartitions" :>
                <<[value |-> temporalConfig.Matching.TaskQueuePartitions]>>)
            @@ ("matching.numTaskqueueWritePartitions" :>
                <<[value |-> temporalConfig.Matching.TaskQueuePartitions]>>)
    IN  Merge(dc, matchingConfig)

\* variant: the quotient is rounded down
Ceil_Floor(a, b) == a \div b

\* Math.ceil(a / b) for a non-negative integer a and a positive integer b
Ceil(a, b) == IF a % b = 0 THEN a \div b ELSE (a \div b) + 1

workerConfig(temporalConfig) ==
    [TEMPORAL_WORKFLOW_TASK_POLLERS |-> NumberToString(temporalConfig.Workers.WorkflowPollers),
     TEMPORAL_ACTIVITY_TASK_POLLERS |-> NumberToString(temporalConfig.Workers.ActivityPollers)]

soakTestConfig(temporalConfig) ==
    [CONCURRENT_WORKFLOWS |->
        NumberToString(Ceil(temporalConfig.SoakTest.ConcurrentWorkflows,
                            temporalConfig.Frontend.Pods))]

----------------------------------------------------------------------------
(* The deployment program *)

CompleteContainer(name) == [name |-> name, image |-> "img:1", resources |-> Resources]

\* what the manifest directories hold
ManifestDirectory ==
    [temporal |-> << Deployment("temporal-frontend", 1, <<CompleteContainer("frontend")>>),
                     Deployment("temporal-history", 1, <<CompleteContainer("history")>>),
                     Deployment("temporal-matching", 1, <<CompleteContainer("matching")>>),
                     Service("temporal-frontend") >>,
     benchmark |-> << Deployment("benchmark-workers", 1, <<CompleteContainer("worker")>>),
                      Deployment("benchmark-soak-test", 1, <<CompleteContainer("soak")>>) >>,
     monitoring |-> << Prometheus("k8s", << [url |-> "http://old-a/"] >>),
                       ConfigMapObject("k8s") >>,
     dashboards |-> << Grafana("external-grafana"),
                       GrafanaDatasource("external-prometheus"),
                       GrafanaDatasource("cloudwatch"),
                       Deployment("grafana-operator-controller-manager", 1,
                                  <<CompleteContainer("manager")>>) >>]

\* what aws.getRegion, prometheus.prometheusEndpoint and grafana.endpoint
\* resolve to in a run
AwsRegion == "us-west-2"

PrometheusEndpoint == "https://aps.example/ws/"

GrafanaEndpoint == "g-1.grafana-workspace.example"

Configs == [Temporal : TemporalConfigs, Cluster : ClusterConfigs, Persistence : PersistenceConfigs]

NoPass == [directory |-> "", transformations |-> <<>>]

CliIdle ==
    /\ cliEnv = EmptyObject
    /\ cliPc = "idle"
    /\ cliCalls = <<>>
    /\ cliExit = -1

HarnessIdle ==
    /\ group = <<>>
    /\ before = <<>>
    /\ original = <<>>
    /\ applied = NoPass
    /\ passes = 0
    /\ failed = FALSE

Init ==
    /\ config \in Configs
    /\ pc = "createCluster"
    /\ err = ""
    /\ resources = <<>>
    /\ persistence = EmptyObject
    /\ configMaps = EmptyObject
    /\ manifests = ManifestDirectory
    /\ HarnessIdle
    /\ CliIdle

\* a throw ends the program: what was created stays created
Abort(e, created) ==
    /\ err' = e
    /\ pc' = "aborted"
    /\ resources' = resources \o created

CreateCluster ==
    /\ pc = "createCluster"
    /\ LET c == createCluster(config.Cluster, config.Persistence)
       IN  IF c.err # ""
           THEN Abort(c.err, c.resources)
           ELSE /\ resources' = resources \o c.resources
                /\ pc' = "createPersistence"
                /\ err' = err
    /\ UNCHANGED <<config, persistence, configMaps, manifests>>
    /\ UNCHANGED <<harnessVars, cliVars>>

CreatePersistence ==
    /\ pc = "createPersistence"
    /\ LET p == createPersistence(config.Persistence, config.Temporal)
       IN  IF p.err # ""
           THEN Abort(p.err, p.resources) /\ persistence' = persistence
           ELSE /\ resources' = resources \o p.resources
                /\ persistence' = p.env
                /\ pc' = "configMaps"
                /\ err' = err
    /\ UNCHANGED <<config, configMaps, manifests>>
    /\ UNCHANGED <<harnessVars, cliVars>>

CreateConfigMaps ==
    /\ pc = "configMaps"
    /\ resources' = resources \o
            <<"k8s.Namespace:temporal", "k8s.ConfigMap:temporal-env",
              "k8s.ConfigMap:temporal-dynamic-config", "k8s.ConfigMap:benchmark-worker-env",
              "k8s.ConfigMap:benchmark-soaktest-env", "k8s.Job:temporal-autosetup">>
    /\ configMaps' =
            ("temporal-env" :> persistence)
            @@ ("temporal-dynamic-config" :> dynamicConfig(config.Temporal))
            @@ ("benchmark-worker-env" :> workerConfig(config.Temporal))
            @@ ("benchmark-soaktest-env" :> soakTestConfig(config.Temporal))
    /\ pc' = "createMonitoring"
    /\ UNCHANGED <<config, err, persistence, manifests>>
    /\ UNCHANGED <<harnessVars, cliVars>>

CreateMonitoring ==
    /\ pc = "createMonitoring"
    /\ resources' = resources \o
            <<"k8s.Namespace:amazon-cloudwatch", "k8s.ConfigMap:fluent-bit-cluster-info",
              "aws.iam.RolePolicyAttachment:cloudwatch-role-policy", "k8s.ConfigFile:fluent-bit",
              "aws.amp.Workspace:prometheus", "aws.iam.Role:workspaceRole",
              "aws.grafana.Workspace:grafana",
              "aws.iam.RolePolicyAttachment:grafana", "aws.iam.RolePolicyAttachment:instance-prometheus",
              "aws.grafana.WorkspaceApiKey:external-grafana-editor">>
    /\ pc' = "temporal"
    /\ UNCHANGED <<config, err, persistence, configMaps, manifests>>
    /\ UNCHANGED <<harnessVars, cliVars>>

Created(name) == \E i \in 1..Len(resources) : resources[i] = name

\* new k8s.kustomize.Directory(directory, { transformations }): a throw of
\* a transformation ends the program
Directory(directory, transformations, next, more) ==
    LET r == ApplyDirectory(transformations, manifests[directory])
    IN  /\ manifests' = [manifests EXCEPT ![directory] = r.objs]
        /\ IF r.err
           THEN Abort("TypeError", <<>>)
           ELSE /\ resources' = resources \o <<"k8s.kustomize.Directory:" \o directory>> \o more
                /\ pc' = next
                /\ err' = err
        /\ UNCHANGED <<config, persistence, configMaps>>
        /\ UNCHANGED <<harnessVars, cliVars>>

\* the callback of pulumi.all([region, prometheusEndpoint]).apply in
\* createMonitoring: runs once the outputs are known
MonitoringDirectory ==
    /\ pc \notin {"aborted"}
    /\ Created("aws.amp.Workspace:prometheus")
    /\ ~Created("k8s.kustomize.Directory:monitoring")
    /\ Directory("monitoring", monitoringTransformations(AwsRegion, PrometheusEndpoint), pc, <<>>)

\* the callback of pulumi.all([region, grafana.endpoint, prometheusEndpoint]).apply
DashboardsDirectory ==
    /\ pc \notin {"aborted"}
    /\ Created("aws.grafana.Workspace:grafana")
    /\ ~Created("k8s.kustomize.Directory:dashboards")
    /\ Directory("dashboards",
                 dashboardsTransformations(AwsRegion, GrafanaEndpoint, PrometheusEndpoint),
                 pc, <<"k8s.Secret:external-grafana-apikey">>)

TemporalDirectory ==
    /\ pc = "temporal"
    /\ Directory("temporal", temporalTransformations(config.Temporal), "benchmark", <<>>)

BenchmarkDirectory ==
    /\ pc = "benchmark"
    /\ Directory("benchmark", benchmarkTransformations(config.Temporal), "done", <<>>)

Next ==
    \/ CreateCluster
    \/ CreatePersistence
    \/ CreateConfigMaps
    \/ CreateMonitoring
    \/ MonitoringDirectory
    \/ DashboardsDirectory
    \/ TemporalDirectory
    \/ BenchmarkDirectory

Spec == Init /\ [][Next]_vars

----------------------------------------------------------------------------
(* Transformations on arbitrary manifest groups: one kustomize pass of one   *)
(* generator's transformation, or of one directory's list, over a group; the *)
(* same list may then be passed over the result once more.                   *)

ProgramIdle ==
    /\ config = EmptyObject
    /\ pc = "idle"
    /\ err = ""
    /\ resources = <<>>
    /\ persistence = EmptyObject
    /\ configMaps = EmptyObject
    /\ manifests = EmptyObject

TransformInit ==
    /\ group \in ManifestGroups
    /\ original = group
    /\ before = group
    /\ applied = NoPass
    /\ passes = 0
    /\ failed = FALSE
    /\ ProgramIdle
    /\ CliIdle

Pass(directory, transformations) ==
    LET r == ApplyDirectory(transformations, group)
    IN  /\ group' = r.objs
        /\ failed' = r.err
        /\ before' = group
        /\ applied' = [directory |-> directory, transformations |-> transformations]
        /\ passes' = passes + 1
        /\ UNCHANGED original
        /\ UNCHANGED <<progVars, cliVars>>

TargetNames == {"temporal-frontend", "k8s", "external-prometheus", "cloudwatch", "external-grafana"}

RunScaleDeployment ==
    /\ passes = 0
    /\ \E name \in TargetNames, replicas \in 0..MaxReplicas :
          Pass("", <<Scale(name, replicas)>>)

RunSetLimits ==
    /\ passes = 0
    /\ \E name \in {"temporal-frontend"}, cpu \in CPUChoices, memory \in MemoryChoices :
          Pass("", <<Limits(name, cpu, memory)>>)

RunTolerateDedicated ==
    /\ passes = 0
    /\ \E value \in {"temporal", "cassandra"} :
          Pass("", <<Tolerate(value)>>)

RunConfigureAWSDatasource ==
    /\ passes = 0
    /\ \E name \in {"external-prometheus", "cloudwatch"}, region \in Regions,
          endpoint \in Endpoints \cup {""} :
          Pass("", <<AWSDatasource(name, region, endpoint)>>)

RunConfigureExternalGrafana ==
    /\ passes = 0
    /\ \E name \in {"external-grafana", "k8s"}, endpoint \in {"g-1.grafana-workspace.example", ""} :
          Pass("", <<ExternalGrafana(name, endpoint)>>)

RunConfigureRemoteWrite ==
    /\ passes = 0
    /\ \E name \in {"k8s", "temporal-frontend"}, region \in Regions, endpoint \in Endpoints :
          Pass("", <<RemoteWrite(name, region, endpoint)>>)

RunTemporalDirectory ==
    /\ passes = 0
    /\ \E temporalConfig \in TemporalConfigs :
          Pass("temporal", temporalTransformations(temporalConfig))

RunBenchmarkDirectory ==
    /\ passes = 0
    /\ \E temporalConfig \in TemporalConfigs :
          Pass("benchmark", benchmarkTransformations(temporalConfig))

RunMonitoringDirectory ==
    /\ passes = 0
    /\ \E region \in Regions, endpoint \in Endpoints :
          Pass("monitoring", monitoringTransformations(region, endpoint))

RunDashboardsDirectory ==
    /\ passes = 0
    /\ \E region \in Regions, grafanaEndpoint \in {"g-1.grafana-workspace.example"},
          prometheusEndpoint \in Endpoints :
          Pass("dashboards", dashboardsTransformations(region, grafanaEndpoint, prometheusEndpoint))

\* transformations that write the same fields when they meet on an object
Writers ==
    { Scale(name, replicas) : name \in {"temporal-frontend", "temporal-history"},
                              replicas \in 0..MaxReplicas }
    \cup { Tolerate(value) : value \in {"temporal", "cassandra"} }

\* a directory with a list of two transformations
RunTransformationPair ==
    /\ passes = 0
    /\ \E first \in Writers, second \in Writers :
          Pass("", <<first, second>>)

\* the list of the last pass, passed over its own result
Reapply ==
    /\ passes = 1
    /\ ~failed
    /\ Pass(applied.directory, applied.transformations)

TransformNext ==
    \/ RunScaleDeployment
    \/ RunSetLimits
    \/ RunTolerateDedicated
    \/ RunConfigureAWSDatasource
    \/ RunConfigureExternalGrafana
    \/ RunConfigureRemoteWrite
    \/ RunTemporalDirectory
    \/ RunBenchmarkDirectory
    \/ RunMonitoringDirectory
    \/ RunDashboardsDirectory
    \/ RunTransformationPair
    \/ Reapply

TransformSpec == TransformInit /\ [][TransformNext]_vars

----------------------------------------------------------------------------
(* Properties of config resolution (specification Spec) *)

InvalidConfiguration == {"invalid cluster config", "invalid persistence config", "invalid RDS config"}

\* createCluster and createPersistence have both run, or one of them threw
Resolved == pc \notin {"createCluster", "createPersistence"}

ClusterVariants == Cardinality({"EKS"} \cap DOMAIN config.Cluster)

PersistenceVariants == Cardinality({"RDS", "Cassandra"} \cap DOMAIN config.Persistence)

RecognizedEngines == {"postgres", "aurora-postgresql", "mysql", "aurora-mysql"}

\* C1 (as claimed): a configuration whose Cluster oneof or Persistence oneof
\* has zero or more than one populated variant ends resolution with an
\* InvalidConfiguration error.
C1_BadOneofRejected ==
    (Resolved /\ (ClusterVariants # 1 \/ PersistenceVariants # 1))
        => err \in InvalidConfiguration

\* C2 (as claimed): with exactly one populated variant in each oneof,
\* resolution returns without error whatever the values inside the variant.
C2_ExactlyOneResolves ==
    (Resolved /\ ClusterVariants = 1 /\ PersistenceVariants = 1)
        => err = ""

\* C2 (amended): with exactly one populated variant in each oneof, resolution
\* returns without error unless the populated variant is RDS with an Engine
\* outside the four recognized identifiers; then it fails with
\* "invalid RDS config".
C2_ExactlyOneResolvesUnlessEngine ==
    (Resolved /\ ClusterVariants = 1 /\ PersistenceVariants = 1)
        => IF /\ "RDS" \in DOMAIN config.Persistence
              /\ config.Persistence.RDS.Engine \notin RecognizedEngines
           THEN err = "invalid RDS config"
           ELSE err = ""

C2_Witness ==
    /\ pc = "configMaps"
    /\ err = ""
    /\ ClusterVariants = 1
    /\ PersistenceVariants = 1
    /\ "Cassandra" \in DOMAIN config.Persistence
    /\ "DB" \in DOMAIN persistence

\* C3 (as claimed): a run that ended with an InvalidConfiguration error has
\* created no resource.
C3_NoResourceBeforeInvalidConfiguration ==
    err \in InvalidConfiguration => resources = <<>>

\* the key prefix of the persistence family the configuration selects
FamilyPrefix ==
    IF "RDS" \in DOMAIN config.Persistence
    THEN IF config.Persistence.RDS.Engine \in {"postgres", "aurora-postgresql"}
         THEN "POSTGRES_" ELSE "MYSQL_"
    ELSE "CASSANDRA_"

PersistenceResolved == Resolved /\ pc # "aborted"

\* C9 (as claimed): the environment map of a resolved persistence choice has
\* DB, DB_PORT, DBNAME, NUM_HISTORY_SHARDS and the family's SEEDS, USER and
\* PWD keys.
C9_EnvKeys ==
    PersistenceResolved
        => {"DB", "DB_PORT", "DBNAME", "NUM_HISTORY_SHARDS",
            FamilyPrefix \o "SEEDS", FamilyPrefix \o "USER", FamilyPrefix \o "PWD"}
           \subseteq DOMAIN persistence

\* C9 (amended): the environment map of a resolved persistence choice has DB,
\* DB_PORT, DBNAME, NUM_HISTORY_SHARDS and the family's SEEDS and USER keys;
\* the password key is POSTGRES_PWD or MYSQL_PWD for the RDS families and
\* CASSANDRA_PASSWORD (not CASSANDRA_PWD) for Cassandra.
C9_EnvKeysPasswordKey ==
    PersistenceResolved
        => /\ {"DB", "DB_PORT", "DBNAME", "NUM_HISTORY_SHARDS",
               FamilyPrefix \o "SEEDS", FamilyPrefix \o "USER"} \subseteq DOMAIN persistence
           /\ IF FamilyPrefix = "CASSANDRA_"
              THEN /\ "CASSANDRA_PASSWORD" \in DOMAIN persistence
                   /\ "CASSANDRA_PWD" \notin DOMAIN persistence
              ELSE (FamilyPrefix \o "PWD") \in DOMAIN persistence

C9_Witness ==
    /\ PersistenceResolved
    /\ "RDS" \notin DOMAIN config.Persistence
    /\ persistence["DB"] = "cassandra"
    /\ "CASSANDRA_PASSWORD" \in DOMAIN persistence

\* C10: once createPersistence has run on a configuration with RDS populated,
\* postgres and aurora-postgresql gave DB "postgresql", port 5432 and the
\* POSTGRES prefix, mysql and aurora-mysql gave DB "mysql", port 3306 and the
\* MYSQL prefix, and any other engine gave "invalid RDS config" and no
\* environment map.
C10_EngineTriple ==
    (Resolved /\ ClusterVariants = 1 /\ "RDS" \in DOMAIN config.Persistence)
        => LET engine == config.Persistence.RDS.Engine
           IN  IF engine \in {"postgres", "aurora-postgresql"}
               THEN /\ err = ""
                    /\ persistence["DB"] = "postgresql"
                    /\ persistence["DB_PORT"] = "5432"
                    /\ {"POSTGRES_SEEDS", "POSTGRES_USER", "POSTGRES_PWD"} \subseteq DOMAIN persistence
                    /\ {"MYSQL_SEEDS", "MYSQL_USER", "MYSQL_PWD"} \cap DOMAIN persistence = {}
               ELSE IF engine \in {"mysql", "aurora-mysql"}
               THEN /\ err = ""
                    /\ persistence["DB"] = "mysql"
                    /\ persistence["DB_PORT"] = "3306"
                    /\ {"MYSQL_SEEDS", "MYSQL_USER", "MYSQL_PWD"} \subseteq DOMAIN persistence
                    /\ {"POSTGRES_SEEDS", "POSTGRES_USER", "POSTGRES_PWD"} \cap DOMAIN persistence = {}
               ELSE /\ err = "invalid RDS config"
                    /\ persistence = EmptyObject

C10_Witness ==
    /\ pc = "configMaps"
    /\ "RDS" \in DOMAIN config.Persistence
    /\ config.Persistence.RDS.Engine = "aurora-mysql"
    /\ persistence["DB_PORT"] = "3306"

----------------------------------------------------------------------------
(* Properties of the transformations (specification TransformSpec) *)

\* the last pass was the first one, of a single transformation of generator gen
SinglePass(gen) ==
    /\ passes = 1
    /\ Len(applied.transformations) = 1
    /\ applied.transformations[1].gen = gen

\* the kind a generator's transformation is bound to
BoundKind(gen) ==
    CASE gen \in {"scaleDeployment", "setLimits"} -> "Deployment"
      [] gen = "configureAWSDatasource" -> "GrafanaDatasource"
      [] gen = "configureExternalGrafana" -> "Grafana"
      [] gen = "configureRemoteWrite" -> "Prometheus"

NameTargeted ==
    {"scaleDeployment", "setLimits", "configureAWSDatasource", "configureExternalGrafana",
     "configureRemoteWrite"}

Matches(t, obj) == obj.kind = BoundKind(t.gen) /\ obj.metadata.name = t.name

HasLimitField(obj, section, field) ==
    LET containers == obj.spec.template.spec.containers
    IN  /\ Len(containers) > 0
        /\ "resources" \in DOMAIN containers[1]
        /\ section \in DOMAIN containers[1].resources
        /\ field \in DOMAIN containers[1].resources[section]

LimitField(obj, section, field) ==
    obj.spec.template.spec.containers[1].resources[section][field]

\* a Deployment without the resources of its containers
WithoutResources(obj) ==
    [kind |-> obj.kind, metadata |-> obj.metadata, replicas |-> obj.spec.replicas,
     podKeys |-> DOMAIN obj.spec.template.spec,
     containers |-> [j \in 1..Len(obj.spec.template.spec.containers) |->
                        [k \in (DOMAIN obj.spec.template.spec.containers[j]) \ {"resources"} |->
                            obj.spec.template.spec.containers[j][k]]]]

\* the four fields setLimits may write, each with the Limits block and key
\* it is written from
LimitSources(t) ==
    { [section |-> "requests", field |-> "cpu", limits |-> t.cpu, key |-> "request"],
      [section |-> "limits", field |-> "cpu", limits |-> t.cpu, key |-> "limit"],
      [section |-> "requests", field |-> "memory", limits |-> t.memory, key |-> "request"],
      [section |-> "limits", field |-> "memory", limits |-> t.memory, key |-> "limit"] }

\* the field of post is src's value if written, and as in pre if not
LimitFieldOutcome(pre, post, src, written) ==
    IF written
    THEN /\ HasLimitField(post, src.section, src.field)
         /\ LimitField(post, src.section, src.field) = src.limits[src.key]
    ELSE /\ HasLimitField(post, src.section, src.field) <=> HasLimitField(pre, src.section, src.field)
         /\ HasLimitField(pre, src.section, src.field)
                => LimitField(post, src.section, src.field) = LimitField(pre, src.section, src.field)

\* C4 (as claimed): setLimits on a matching Deployment writes exactly the
\* fields whose source value is present, and leaves the others as they were.
C4_WritesPresentFields ==
    (SinglePass("setLimits") /\ ~failed)
        => \A i \in 1..Len(group) :
              LET t == applied.transformations[1]
              IN  Matches(t, before[i])
                    => /\ \A src \in LimitSources(t) :
                            LimitFieldOutcome(before[i], group[i], src,
                                              src.key \in DOMAIN src.limits)
                       /\ WithoutResources(group[i]) = WithoutResources(before[i])

\* C4 (amended): setLimits on a matching Deployment, when it returns normally,
\* writes exactly the fields whose source value is present and not the empty
\* string, and leaves every other field as it was: an empty string is treated
\* as an absent value.
C4_WritesNonEmptyFields ==
    (SinglePass("setLimits") /\ ~failed)
        => \A i \in 1..Len(group) :
              LET t == applied.transformations[1]
              IN  Matches(t, before[i])
                    => /\ \A src \in LimitSources(t) :
                            LimitFieldOutcome(before[i], group[i], src,
                                              /\ src.key \in DOMAIN src.limits
                                              /\ src.limits[src.key] # "")
                       /\ WithoutResources(group[i]) = WithoutResources(before[i])

\* only a CPU request is given: the memory request, the memory limit and the
\* CPU limit of the matching Deployment stay, the CPU request is written
C4_Witness ==
    /\ SinglePass("setLimits")
    /\ ~failed
    /\ applied.transformations[1].cpu = [request |-> "500m"]
    /\ applied.transformations[1].memory = EmptyObject
    /\ \E i \in 1..Len(group) :
          /\ Matches(applied.transformations[1], before[i])
          /\ HasLimitField(before[i], "limits", "memory")
          /\ before[i].spec.template.spec.containers[1].resources = Resources
          /\ group[i].spec.template.spec.containers[1].resources =
                [requests |-> [cpu |-> "500m", memory |-> "128Mi"],
                 limits |-> [cpu |-> "200m", memory |-> "256Mi"]]

ConfiguredDirectories == {"temporal", "benchmark", "monitoring", "dashboards"}

\* C5: a directory's transformation list passed a second time over the
\* result of its first pass leaves every object as the first pass left it.
C5_ListIdempotent ==
    (passes = 2 /\ applied.directory \in ConfiguredDirectories /\ ~failed)
        => group = before

C5_Witness ==
    /\ passes = 2
    /\ ~failed
    /\ applied.directory = "temporal"
    /\ before # original
    /\ \E i \in 1..Len(original) :
          /\ original[i].kind = "Deployment"
          /\ "tolerations" \in DOMAIN original[i].spec.template.spec

\* C6: a name-targeted transformation leaves every object whose kind or name
\* differs from its bound kind and name unchanged, and with no matching
\* object in the group the pass changes nothing and does not throw.
C6_NonMatchingUnchanged ==
    (passes = 1 /\ Len(applied.transformations) = 1
        /\ applied.transformations[1].gen \in NameTargeted)
        => LET t == applied.transformations[1]
           IN  /\ \A i \in 1..Len(group) : ~Matches(t, before[i]) => group[i] = before[i]
               /\ (\A i \in 1..Len(group) : ~Matches(t, before[i]))
                     => (~failed /\ group = before)

\* a Deployment of another name and an object of the name but another kind
\* went through scaleDeployment
C6_Witness ==
    /\ SinglePass("scaleDeployment")
    /\ ~failed
    /\ applied.transformations[1].name = "temporal-frontend"
    /\ applied.transformations[1].replicas = 2
    /\ Len(group) = 2
    /\ before[1].kind = "Deployment" /\ before[1].metadata.name = "temporal-history"
    /\ before[2].kind = "Service" /\ before[2].metadata.name = "temporal-frontend"
    /\ group = before

\* C7: tolerateDedicated(v) gives every Deployment, of any name, the single
\* toleration {dedicated, Equal, v, NoSchedule} in place of any list it had,
\* changes nothing else of it, and leaves every other object unchanged.
C7_TolerationOnEveryDeployment ==
    SinglePass("tolerateDedicated")
        => /\ ~failed
           /\ \A i \in 1..Len(group) :
                 IF before[i].kind = "Deployment"
                 THEN /\ "tolerations" \in DOMAIN group[i].spec.template.spec
                      /\ group[i].spec.template.spec.tolerations =
                            << [key |-> "dedicated", operator |-> "Equal",
                                value |-> applied.transformations[1].value,
                                effect |-> "NoSchedule"] >>
                      /\ group[i].kind = "Deployment"
                      /\ group[i].metadata = before[i].metadata
                      /\ group[i].spec.replicas = before[i].spec.replicas
                      /\ group[i].spec.template.spec.containers =
                            before[i].spec.template.spec.containers
                      /\ DOMAIN group[i].spec.template.spec =
                            (DOMAIN before[i].spec.template.spec) \cup {"tolerations"}
                 ELSE group[i] = before[i]

\* a Deployment that had two tolerations, one of another name that had
\* none; both end with the same single toleration
C7_Witness ==
    /\ SinglePass("tolerateDedicated")
    /\ applied.transformations[1].value = "temporal"
    /\ Len(group) = 2
    /\ before[1].kind = "Deployment" /\ before[2].kind = "Deployment"
    /\ before[1].metadata.name # before[2].metadata.name
    /\ "tolerations" \notin DOMAIN before[1].spec.template.spec
    /\ "tolerations" \in DOMAIN before[2].spec.template.spec
    /\ Len(before[2].spec.template.spec.tolerations) = 2
    /\ group[1].spec.template.spec.tolerations = group[2].spec.template.spec.tolerations

\* C8: after configureRemoteWrite on the matching Prometheus object,
\* spec.remoteWrite has one entry whatever was there before, with url the
\* endpoint followed by "api/v1/remote_write" and the given sigv4 region;
\* spec.replicas is 1 and spec.replicaExternalLabelName is empty.
C8_RemoteWriteReplaced ==
    SinglePass("configureRemoteWrite")
        => \A i \in 1..Len(group) :
              LET t == applied.transformations[1]
              IN  Matches(t, before[i])
                    => /\ ~failed
                       /\ Len(group[i].spec.remoteWrite) = 1
                       /\ group[i].spec.remoteWrite[1].url = t.endpoint \o "api/v1/remote_write"
                       /\ t.endpoint = "https://prom.example/"
                            => group[i].spec.remoteWrite[1].url
                                  = "https://prom.example/api/v1/remote_write"
                       /\ group[i].spec.remoteWrite[1].sigv4.region = t.region
                       /\ group[i].spec.replicas = 1
                       /\ group[i].spec.replicaExternalLabelName = ""

C8_Witness ==
    /\ SinglePass("configureRemoteWrite")
    /\ applied.transformations[1].region = "us-west-2"
    /\ applied.transformations[1].endpoint = "https://prom.example/"
    /\ \E i \in 1..Len(group) :
          /\ Matches(applied.transformations[1], before[i])
          /\ "remoteWrite" \in DOMAIN before[i].spec
          /\ Len(before[i].spec.remoteWrite) = 2
          /\ Len(group[i].spec.remoteWrite) = 1
          /\ group[i].spec.remoteWrite[1].url = "https://prom.example/api/v1/remote_write"

----------------------------------------------------------------------------
(* Further properties of the deployment program (specification Spec) *)

VisibilityAbsent ==
    \/ "Visibility" \notin DOMAIN config.Persistence
    \/ "OpenSearch" \notin DOMAIN config.Persistence.Visibility

\* the map the selected persistence variant returns: RDS when populated,
\* Cassandra otherwise
VariantEnv ==
    IF "RDS" \in DOMAIN config.Persistence
    THEN rdsPersistence(config.Persistence.RDS, config.Temporal).env
    ELSE cassandraPersistence(config.Persistence.Cassandra, config.Temporal).env

VisibilityKeys == {"ENABLE_ES", "ES_SCHEMA", "ES_SEEDS", "ES_PORT"}

\* C11: with no Visibility choice (Visibility missing, or its OpenSearch
\* unset) createPersistence returns exactly the map of the selected
\* persistence variant: no visibility key is added and no visibility
\* resource is created.
C11_AbsentVisibilityAddsNothing ==
    (PersistenceResolved /\ VisibilityAbsent)
        => /\ persistence = VariantEnv
           /\ VisibilityKeys \cap DOMAIN persistence = {}
           /\ ~Created("aws.opensearch.Domain")

C11_Witness ==
    /\ pc = "configMaps"
    /\ "Visibility" \in DOMAIN config.Persistence
    /\ "OpenSearch" \notin DOMAIN config.Persistence.Visibility
    /\ "RDS" \in DOMAIN config.Persistence
    /\ "POSTGRES_SEEDS" \in DOMAIN persistence

----------------------------------------------------------------------------
(* The dashboard upload CLI *)

MaxFolderId == 3

\* what ./dashboards/stack.yaml may hold, and whether decoder.UnmarshalYAML
\* accepts it
DashboardFiles ==
    { [content |-> "title: Temporal", valid |-> TRUE],
      [content |-> "title: Benchmarks, rows: []", valid |-> TRUE],
      [content |-> "title: Soak test, tags: [temporal]", valid |-> TRUE],
      [content |-> "title: [", valid |-> FALSE],
      [content |-> "rows: 3", valid |-> FALSE],
      [content |-> "", valid |-> FALSE] }

CliEnvironments ==
    [exists : {TRUE}, file : DashboardFiles,
     GRAFANA_HOST : {"", "http://grafana:3000"}, GRAFANA_API_TOKEN : {"", "token"}]
    \cup [exists : {FALSE}, file : {[content |-> "", valid |-> FALSE]},
          GRAFANA_HOST : {"", "http://grafana:3000"}, GRAFANA_API_TOKEN : {"", "token"}]

CliInit ==
    /\ cliEnv \in CliEnvironments
    /\ cliPc = "ReadFile"
    /\ cliCalls = <<>>
    /\ cliExit = -1
    /\ ProgramIdle
    /\ HarnessIdle

Call(step, ok, folder) == [step |-> step, ok |-> ok, folder |-> folder]

\* log.Fatalf: the message is logged and the process exits with status 1
Fatalf ==
    /\ cliPc' = "exited"
    /\ cliExit' = 1

CliReadFile ==
    /\ cliPc = "ReadFile"
    /\ cliCalls' = Append(cliCalls, Call("ReadFile", cliEnv.exists, 0))
    /\ IF cliEnv.exists
       THEN cliPc' = "UnmarshalYAML" /\ cliExit' = cliExit
       ELSE Fatalf
    /\ UNCHANGED <<cliEnv, progVars, harnessVars>>

CliUnmarshalYAML ==
    /\ cliPc = "UnmarshalYAML"
    /\ cliCalls' = Append(cliCalls, Call("UnmarshalYAML", cliEnv.file.valid, 0))
    /\ IF cliEnv.file.valid
       THEN cliPc' = "FindOrCreateFolder" /\ cliExit' = cliExit
       ELSE Fatalf
    /\ UNCHANGED <<cliEnv, progVars, harnessVars>>

\* the Grafana API answers with a folder or with an error (0); without a
\* host there is no answer
FolderAnswers == IF cliEnv.GRAFANA_HOST = "" THEN {0} ELSE 0..MaxFolderId

\* variant: the error of FindOrCreateFolder is not looked at
CliFindOrCreateFolder_ErrorIgnored ==
    /\ cliPc = "FindOrCreateFolder"
    /\ \E folder \in FolderAnswers :
          /\ cliCalls' = Append(cliCalls, Call("FindOrCreateFolder", folder # 0, folder))
          /\ cliPc' = "UpsertDashboard" /\ cliExit' = cliExit
    /\ UNCHANGED <<cliEnv, progVars, harnessVars>>

CliFindOrCreateFolder ==
    /\ cliPc = "FindOrCreateFolder"
    /\ \E folder \in FolderAnswers :
          /\ cliCalls' = Append(cliCalls, Call("FindOrCreateFolder", folder # 0, folder))
          /\ IF folder # 0
             THEN cliPc' = "UpsertDashboard" /\ cliExit' = cliExit
             ELSE Fatalf
    /\ UNCHANGED <<cliEnv, progVars, harnessVars>>

\* the upsert goes into the folder FindOrCreateFolder returned; when it
\* succeeds main returns and the process exits with status 0
CliUpsertDashboard ==
    /\ cliPc = "UpsertDashboard"
    /\ \E ok \in (IF cliEnv.GRAFANA_API_TOKEN = "" THEN {FALSE} ELSE BOOLEAN) :
          /\ cliCalls' = Append(cliCalls,
                                Call("UpsertDashboard", ok, cliCalls[Len(cliCalls)].folder))
          /\ IF ok
             THEN cliPc' = "exited" /\ cliExit' = 0
             ELSE Fatalf
    /\ UNCHANGED <<cliEnv, progVars, harnessVars>>

CliNext ==
    \/ CliReadFile
    \/ CliUnmarshalYAML
    \/ CliFindOrCreateFolder
    \/ CliUpsertDashboard

CliSpec == CliInit /\ [][CliNext]_vars

CliOrder == <<"ReadFile", "UnmarshalYAML", "FindOrCreateFolder", "UpsertDashboard">>

\* C12: the CLI makes its calls in the order read, parse, find-or-create
\* folder, upsert; a call that fails is the last one and the process has
\* exited with status 1; an upsert is made only after folder resolution
\* succeeded; status 0 only after all four calls succeeded.
C12_StepsInOrderFailFast ==
    /\ Len(cliCalls) <= 4
    /\ \A i \in 1..Len(cliCalls) :
          /\ cliCalls[i].step = CliOrder[i]
          /\ i < Len(cliCalls) => cliCalls[i].ok
          /\ ~cliCalls[i].ok => (cliExit = 1 /\ cliPc = "exited")
    /\ cliExit = 0 => (Len(cliCalls) = 4 /\ \A i \in 1..4 : cliCalls[i].ok)
    /\ cliExit = 1 => (cliCalls # <<>> /\ ~cliCalls[Len(cliCalls)].ok)
    /\ cliExit \in {-1, 0, 1}
    /\ cliExit = -1 <=> cliPc # "exited"

\* folder resolution failed: the process has exited with status 1 and no
\* upsert was attempted
C12_Witness ==
    /\ cliExit = 1
    /\ Len(cliCalls) = 3
    /\ cliCalls[3].step = "FindOrCreateFolder"
    /\ ~cliCalls[3].ok
    /\ cliCalls[1].ok /\ cliCalls[2].ok

----------------------------------------------------------------------------
(* Further properties of the transformations (specification TransformSpec) *)

\* containers[0].resources.<section> is there
HasLimitSection(obj, section) ==
    LET containers == obj.spec.template.spec.containers
    IN  /\ Len(containers) > 0
        /\ "resources" \in DOMAIN containers[1]
        /\ section \in DOMAIN containers[1].resources

\* the object lacks a structure the generator writes to
StructureMissing(gen, obj) ==
    CASE gen = "setLimits" ->
            ~HasLimitSection(obj, "requests") \/ ~HasLimitSection(obj, "limits")
      [] gen = "configureAWSDatasource" -> "datasource" \notin DOMAIN obj.spec
      [] gen = "configureExternalGrafana" -> "external" \notin DOMAIN obj.spec

StructureWriters == {"setLimits", "configureAWSDatasource", "configureExternalGrafana"}

\* C13 (as claimed): a transformation that matches an object lacking the
\* structure it writes to throws, whatever its parameters are.
C13_MissingStructureFatal ==
    (passes = 1 /\ Len(applied.transformations) = 1
        /\ applied.transformations[1].gen \in StructureWriters)
        => \A i \in 1..Len(group) :
              LET t == applied.transformations[1]
              IN  (Matches(t, before[i]) /\ StructureMissing(t.gen, before[i])) => failed

\* a source value of setLimits that is given and not empty, to be written
\* to a section the object lacks
WriteIntoMissing(t, obj) ==
    \E src \in LimitSources(t) :
        /\ src.key \in DOMAIN src.limits
        /\ src.limits[src.key] # ""
        /\ ~HasLimitSection(obj, src.section)

\* C13 (amended): configureAWSDatasource and configureExternalGrafana throw
\* on every matching object that lacks spec.datasource / spec.external;
\* setLimits throws on a matching Deployment exactly when one of its
\* non-empty source values has to be written to a section the object lacks,
\* and returns normally when no value needs the missing structure.
C13_MissingStructureFatalWhenWritten ==
    (passes = 1 /\ Len(applied.transformations) = 1
        /\ applied.transformations[1].gen \in StructureWriters)
        => LET t == applied.transformations[1]
           IN  /\ t.gen # "setLimits"
                    => \A i \in 1..Len(group) :
                          (Matches(t, before[i]) /\ StructureMissing(t.gen, before[i])) => failed
               /\ t.gen = "setLimits"
                    => (failed <=> \E i \in 1..Len(group) :
                                      Matches(t, before[i]) /\ WriteIntoMissing(t, before[i]))

\* a CPU request for a Deployment without containers: the pass threw
C13_Witness ==
    /\ SinglePass("setLimits")
    /\ failed
    /\ applied.transformations[1].cpu = [request |-> "500m"]
    /\ \E i \in 1..Len(group) :
          /\ Matches(applied.transformations[1], before[i])
          /\ Len(before[i].spec.template.spec.containers) = 0

\* the positions of the list whose transformation writes spec.replicas of
\* the Deployment obj
ScalersOf(ts, obj) ==
    { j \in 1..Len(ts) : ts[j].gen = "scaleDeployment" /\ ts[j].name = obj.metadata.name }

\* the positions of the list whose transformation writes the tolerations
ToleratorsOf(ts) == { j \in 1..Len(ts) : ts[j].gen = "tolerateDedicated" }

Last(positions) == CHOOSE j \in positions : \A k \in positions : k <= j

\* C14: after a pass that did not throw, spec.replicas of every Deployment
\* is the count of the last Replica Scaler of the list bound to its name
\* (and as before the pass when there is none), and its tolerations are
\* those of the last Toleration Setter of the list; for two scalers of the
\* same name with counts a then b the final spec.replicas is b.
C14_LastWriterWins ==
    (passes = 1 /\ ~failed)
        => \A i \in 1..Len(group) :
              before[i].kind = "Deployment"
                => LET ts == applied.transformations
                       scalers == ScalersOf(ts, before[i])
                       tolerators == ToleratorsOf(ts)
                   IN  /\ group[i].spec.replicas =
                            IF scalers = {} THEN before[i].spec.replicas
                            ELSE ts[Last(scalers)].replicas
                       /\ tolerators # {}
                            => /\ "tolerations" \in DOMAIN group[i].spec.template.spec
                               /\ group[i].spec.template.spec.tolerations =
                                    <<Toleration(ts[Last(tolerators)].value)>>

\* two scalers of temporal-frontend, counts 2 then 0, over a Deployment of
\* that name that had 1 replica
C14_Witness ==
    /\ passes = 1
    /\ ~failed
    /\ applied.transformations = <<Scale("temporal-frontend", 2), Scale("temporal-frontend", 0)>>
    /\ \E i \in 1..Len(group) :
          /\ before[i].kind = "Deployment"
          /\ before[i].metadata.name = "temporal-frontend"
          /\ before[i].spec.replicas = 1
          /\ group[i].spec.replicas = 0

\* C15: configureAWSDatasource on the matching GrafanaDatasource sets
\* spec.datasource.url to the endpoint when that is not empty and leaves the
\* url as it was when it is empty; in both cases spec.datasource.jsonData is
\* exactly {sigV4Auth, sigV4AuthType "ec2_iam_role", sigV4Region region},
\* without any key it had before; nothing else of the object changes.
C15_DatasourcePatched ==
    SinglePass("configureAWSDatasource")
        => \A i \in 1..Len(group) :
              LET t == applied.transformations[1]
              IN  (Matches(t, before[i]) /\ "datasource" \in DOMAIN before[i].spec)
                    => /\ ~failed
                       /\ "datasource" \in DOMAIN group[i].spec
                       /\ LET pre == before[i].spec.datasource
                              post == group[i].spec.datasource
                          IN  /\ DOMAIN post = (DOMAIN pre) \cup {"jsonData"}
                                               \cup (IF t.endpoint # "" THEN {"url"} ELSE {})
                              /\ t.endpoint # "" => post.url = t.endpoint
                              /\ (t.endpoint = "" /\ "url" \in DOMAIN pre) => post.url = pre.url
                              /\ post.jsonData = [sigV4Auth |-> TRUE,
                                                  sigV4AuthType |-> "ec2_iam_role",
                                                  sigV4Region |-> t.region]
                              /\ \A k \in (DOMAIN pre) \ {"url", "jsonData"} : post[k] = pre[k]
                       /\ group[i].metadata = before[i].metadata
                       /\ group[i].kind = before[i].kind
                       /\ DOMAIN group[i].spec = DOMAIN before[i].spec

\* the cloudwatch datasource patched with an empty endpoint: the url stays,
\* the timeInterval key of jsonData is gone
C15_Witness ==
    /\ SinglePass("configureAWSDatasource")
    /\ applied.transformations[1].endpoint = ""
    /\ applied.transformations[1].region = "eu-west-1"
    /\ \E i \in 1..Len(group) :
          /\ Matches(applied.transformations[1], before[i])
          /\ "datasource" \in DOMAIN before[i].spec
          /\ "timeInterval" \in DOMAIN before[i].spec.datasource.jsonData
          /\ group[i].spec.datasource.url = "http://prometheus:9090"
          /\ DOMAIN group[i].spec.datasource.jsonData = {"sigV4Auth", "sigV4AuthType", "sigV4Region"}

----------------------------------------------------------------------------
(* Sizing of the soak test (specification Spec) *)

SoakTestEnvWritten == "benchmark-soaktest-env" \in DOMAIN configMaps

\* C16: the CONCURRENT_WORKFLOWS value of the soak-test config map is the
\* decimal form of the least integer n with n * Frontend.Pods >= total.
C16_ConcurrentWorkflowsIsCeiling ==
    SoakTestEnvWritten
        => LET total == config.Temporal.SoakTest.ConcurrentWorkflows
               pods == config.Temporal.Frontend.Pods
               value == configMaps["benchmark-soaktest-env"].CONCURRENT_WORKFLOWS
           IN  \E n \in 0..total :
                  /\ value = NumberToString(n)
                  /\ n * pods >= total
                  /\ \A m \in 0..(n - 1) : m * pods < total

\* 4 workflows over 3 frontend pods: 2 per pod
C16_Witness ==
    /\ SoakTestEnvWritten
    /\ config.Temporal.SoakTest.ConcurrentWorkflows = 4
    /\ config.Temporal.Frontend.Pods = 3
    /\ configMaps["benchmark-soaktest-env"].CONCURRENT_WORKFLOWS = "2"

BenchmarkDeployed == Created("k8s.kustomize.Directory:benchmark")

\* the number a CONCURRENT_WORKFLOWS value stands for
WorkflowsOf(value) == CHOOSE n \in 0..(MaxWorkflows + 1) : NumberToString(n) = value

\* C20: once the benchmark directory is deployed, the soak-test Deployment
\* has Frontend.Pods replicas, and replicas times CONCURRENT_WORKFLOWS is at
\* least the total and less than the total plus Frontend.Pods.
C20_AggregateWorkflows ==
    BenchmarkDeployed
        => LET total == config.Temporal.SoakTest.ConcurrentWorkflows
               pods == config.Temporal.Frontend.Pods
               perPod == WorkflowsOf(configMaps["benchmark-soaktest-env"].CONCURRENT_WORKFLOWS)
           IN  \A i \in 1..Len(manifests.benchmark) :
                  (/\ manifests.benchmark[i].kind = "Deployment"
                   /\ manifests.benchmark[i].metadata.name = "benchmark-soak-test")
                    => /\ manifests.benchmark[i].spec.replicas = pods
                       /\ manifests.benchmark[i].spec.replicas * perPod >= total
                       /\ manifests.benchmark[i].spec.replicas * perPod < total + pods

\* 4 workflows over 3 pods: 3 replicas of 2 workflows each
C20_Witness ==
    /\ pc = "done"
    /\ config.Temporal.SoakTest.ConcurrentWorkflows = 4
    /\ config.Temporal.Frontend.Pods = 3
    /\ configMaps["benchmark-soaktest-env"].CONCURRENT_WORKFLOWS = "2"
    /\ \E i \in 1..Len(manifests.benchmark) :
          /\ manifests.benchmark[i].metadata.name = "benchmark-soak-test"
          /\ manifests.benchmark[i].spec.replicas = 3

----------------------------------------------------------------------------
(* The dynamic config (specification Spec) *)

PartitionKeys == {"matching.numTaskqueueReadPartitions", "matching.numTaskqueueWritePartitions"}

\* what the user put under DynamicConfig, nothing when it is missing
UserDynamicConfig ==
    IF "DynamicConfig" \in DOMAIN config.Temporal
    THEN config.Temporal.DynamicConfig ELSE EmptyObject

\* C19: in the generated dynamic config both partition keys carry the single
\* value Matching.TaskQueuePartitions whatever the user supplied under them,
\* every other user key is passed through with its value, and there is no
\* further key; a missing DynamicConfig gives exactly the two keys.
C19_PartitionKeysOverride ==
    "temporal-dynamic-config" \in DOMAIN configMaps
        => LET generated == configMaps["temporal-dynamic-config"]
           IN  /\ DOMAIN generated = (DOMAIN UserDynamicConfig) \cup PartitionKeys
               /\ \A k \in PartitionKeys :
                     generated[k] = <<[value |-> config.Temporal.Matching.TaskQueuePartitions]>>
               /\ \A k \in (DOMAIN UserDynamicConfig) \ PartitionKeys :
                     generated[k] = UserDynamicConfig[k]
               /\ "DynamicConfig" \notin DOMAIN config.Temporal
                     => DOMAIN generated = PartitionKeys

\* the user set the read partitions to 1 and a frontend key: the read
\* partitions are 4, the frontend key is kept
C19_Witness ==
    /\ "temporal-dynamic-config" \in DOMAIN configMaps
    /\ "matching.numTaskqueueReadPartitions" \in DOMAIN UserDynamicConfig
    /\ UserDynamicConfig["matching.numTaskqueueReadPartitions"] = <<[value |-> 1]>>
    /\ configMaps["temporal-dynamic-config"]["matching.numTaskqueueReadPartitions"] = <<[value |-> 4]>>
    /\ configMaps["temporal-dynamic-config"]["frontend.rps"] = <<[value |-> 100]>>

----------------------------------------------------------------------------
(* The single-stack program of src/stacks/index.ts (specification StacksSpec) *)

MaxHistoryShards == 1024

\* a JS number that is a quotient of integers, in lowest terms
RECURSIVE GCD(_, _)
GCD(a, b) == IF b = 0 THEN a ELSE GCD(b, a % b)

Number(n) == [num |-> n, den |-> 1]

\* a / b of numbers a, b with b # 0
Divide(a, b) ==
    LET n == a.num * b.den
        d == a.den * b.num
        g == GCD(n, d)
    IN  [num |-> n \div g, den |-> d \div g]

dbPrefix == "POSTGRES"

dbPort == 5432

dbType == "postgresql"

historyPodCount(shardCount) == Divide(shardCount, Number(512))

matchingPodCount(partitions) == partitions

\* the values config.requireNumber reads
StackConfigs ==
    [HistoryShards : 1..MaxHistoryShards,
     TaskQueuePartitions : 1..MaxReplicas,
     WorkerCount : 1..MaxReplicas]

\* what the manifest directories of this stack hold
StacksManifestDirectory ==
    ("monitoring" :> << Prometheus("k8s", << [url |-> "http://old-a/"] >>),
                        ConfigMapObject("k8s") >>)
    @@ ("temporal" :> << Deployment("temporal-frontend", Number(1), <<CompleteContainer("frontend")>>),
                         Deployment("temporal-history", Number(1), <<CompleteContainer("history")>>),
                         Deployment("temporal-matching", Number(1), <<CompleteContainer("matching")>>),
                         Service("temporal-frontend") >>)
    @@ ("benchmark-workers" :>
            << Deployment("benchmark-workers", Number(1), <<CompleteContainer("worker")>>) >>)

StacksInit ==
    /\ config \in StackConfigs
    /\ pc = "cluster"
    /\ err = ""
    /\ resources = <<>>
    /\ persistence = EmptyObject
    /\ configMaps = EmptyObject
    /\ manifests = StacksManifestDirectory
    /\ HarnessIdle
    /\ CliIdle

\* one top-level statement that creates resources and leaves the rest alone
StacksCreate(at, created, next) ==
    /\ pc = at
    /\ resources' = resources \o created
    /\ pc' = next

StacksCluster ==
    /\ StacksCreate("cluster", <<"pulumi.StackReference:env", "eks.Cluster:stack">>, "database")
    /\ UNCHANGED <<config, err, persistence, configMaps, manifests>>
    /\ UNCHANGED <<harnessVars, cliVars>>

StacksDatabase ==
    /\ StacksCreate("database",
                    <<"aws.ec2.SecurityGroup:stack-rds", "aws.rds.Instance:stack">>, "configMaps")
    /\ persistence' =
            [DB |-> dbType, DB_PORT |-> NumberToString(dbPort), SQL_MAX_CONNS |-> "40",
             DBNAME |-> "temporal_persistence", VISIBILITY_DBNAME |-> "temporal_visibility",
             MYSQL_TX_ISOLATION_COMPAT |-> "true",
             NUM_HISTORY_SHARDS |-> NumberToString(config.HistoryShards)]
            @@ ((dbPrefix \o "_SEEDS") :> "rds.address")
            @@ ((dbPrefix \o "_USER") :> "temporal")
            @@ ((dbPrefix \o "_PWD") :> "temporal")
    /\ UNCHANGED <<config, err, configMaps, manifests>>
    /\ UNCHANGED <<harnessVars, cliVars>>

StacksConfigMaps ==
    /\ StacksCreate("configMaps",
                    <<"k8s.ConfigMap:temporal-env", "k8s.ConfigMap:temporal-dynamic-config",
                      "k8s.ConfigMap:benchmark-worker-env">>, "autosetup")
    /\ configMaps' = ("temporal-env" :> persistence)
    /\ UNCHANGED <<config, err, persistence, manifests>>
    /\ UNCHANGED <<harnessVars, cliVars>>

StacksAutoSetup ==
    /\ StacksCreate("autosetup", <<"k8s.Job:temporal-autosetup">>, "monitoring")
    /\ UNCHANGED <<config, err, persistence, configMaps, manifests>>
    /\ UNCHANGED <<harnessVars, cliVars>>

\* new k8s.kustomize.Directory(name, { directory, transformations })
StacksDirectory(name, transformations, next) ==
    LET r == ApplyDirectory(transformations, manifests[name])
    IN  /\ pc = name
        /\ manifests' = [manifests EXCEPT ![name] = r.objs]
        /\ IF r.err
           THEN Abort("TypeError", <<>>)
           ELSE /\ resources' = resources \o <<"k8s.kustomize.Directory:" \o name>>
                /\ pc' = next
                /\ err' = err
        /\ UNCHANGED <<config, persistence, configMaps>>
        /\ UNCHANGED <<harnessVars, cliVars>>

StacksMonitoringDirectory == StacksDirectory("monitoring", <<>>, "temporal")

StacksTemporalDirectory ==
    StacksDirectory("temporal",
        << Scale("temporal-history", historyPodCount(Number(config.HistoryShards))),
           Scale("temporal-matching", matchingPodCount(Number(config.TaskQueuePartitions))) >>,
        "benchmark-workers")

StacksBenchmarkDirectory ==
    StacksDirectory("benchmark-workers",
        << Scale("benchmark-workers", Number(config.WorkerCount)) >>, "done")

StacksNext ==
    \/ StacksCluster
    \/ StacksDatabase
    \/ StacksConfigMaps
    \/ StacksAutoSetup
    \/ StacksMonitoringDirectory
    \/ StacksTemporalDirectory
    \/ StacksBenchmarkDirectory

StacksSpec == StacksInit /\ [][StacksNext]_vars

Whole(n) == n.den = 1

\* the Deployments a scaleDeployment of this stack has written
StacksScaled ==
    { d \in {"temporal", "benchmark-workers"} : Created("k8s.kustomize.Directory:" \o d) }

\* C17: every spec.replicas the stack's Replica Scalers have written is a
\* whole number, the temporal-history count historyPodCount(HistoryShards)
\* included, whatever HistoryShards is configured.
C17_ReplicasWhole ==
    \A d \in StacksScaled : \A i \in 1..Len(manifests[d]) :
        manifests[d][i].kind = "Deployment" => Whole(manifests[d][i].spec.replicas)

----------------------------------------------------------------------------
(* The temporal list in any order (specification PermuteSpec): one pass of  *)
(* a rearrangement of the directory's list over one object; a pass treats   *)
(* each object of a group on its own.                                        *)

\* the list ts in the order p, a permutation of its positions
Permuted(ts, p) == [i \in 1..Len(ts) |-> ts[p[i]]]

PermuteInit ==
    /\ group \in { <<ObjectPool[i]>> : i \in 1..Len(ObjectPool) }
    /\ original = group
    /\ before = group
    /\ applied = NoPass
    /\ passes = 0
    /\ failed = FALSE
    /\ ProgramIdle
    /\ CliIdle

\* the temporal directory with its transformations listed in another order
RunPermutedTemporal ==
    /\ passes = 0
    /\ \E configured \in { temporalTransformations(temporalConfig) :
                                temporalConfig \in TemporalConfigs } :
              \E p \in Permutations(1..Len(configured)) :
                 LET r == ApplyDirectory(Permuted(configured, p), group)
                 IN  /\ group' = r.objs
                     /\ failed' = r.err
                     /\ before' = group
                     /\ applied' = [directory |-> "temporal",
                                    transformations |-> Permuted(configured, p),
                                    configured |-> configured]
                     /\ passes' = passes + 1
                     /\ UNCHANGED original
                     /\ UNCHANGED <<progVars, cliVars>>

PermuteNext == RunPermutedTemporal

PermuteSpec == PermuteInit /\ [][PermuteNext]_vars

\* C18: a pass of the seven temporal transformations in any order ends as
\* the pass in the configured order does: it throws exactly when that one
\* throws, and otherwise leaves the same objects.
C18_AnyOrderSameObjects ==
    passes = 1
        => LET r == ApplyDirectory(applied.configured, before)
           IN  /\ failed = r.err
               /\ ~failed => group = r.objs

\* tolerateDedicated ran first and the scaler and limits of temporal-history
\* after it: the Deployment has the replicas, the limit and the toleration
C18_Witness ==
    /\ passes = 1
    /\ ~failed
    /\ applied.transformations[1].gen = "tolerateDedicated"
    /\ applied.transformations # applied.configured
    /\ Len(group) = 1
    /\ group[1].kind = "Deployment"
    /\ group[1].metadata.name = "temporal-history"
    /\ group[1].spec.replicas = 2
    /\ "tolerations" \in DOMAIN group[1].spec.template.spec
    /\ group[1].spec.template.spec.tolerations = <<Toleration("temporal")>>
    /\ HasLimitField(group[1], "limits", "cpu")
    /\ LimitField(group[1], "limits", "cpu") = "2"
    /\ group # before

====
